---- MODULE Spec2Model ----
(***************************************************************************)
(* A model of the expense-extraction pipeline of ai-expenses-agent:        *)
(* the currency conversion service with its rate cache, the two AI         *)
(* providers' reply parsing, the input normalizer and the expense          *)
(* assembly.                                                               *)
(*                                                                         *)
(* Representation.  Python strings whose letters matter (currency codes)   *)
(* are sequences of one-character strings.  A float rate r is the record   *)
(* F(100*r); a JSON value that is no number is NoneVal.  A Decimal amount  *)
(* a is the integer 10000*a, so that amount*rate is exact for the rates    *)
(* used here.                                                              *)
(***************************************************************************)
EXTENDS Integers, Sequences, FiniteSets, TLC

VARIABLES
  cache,     \* CurrencyService._cache: cache key -> rate
  task,      \* per coroutine: the currency-service call it is in
  calls,     \* currency-service calls begun so far
  last,      \* the currency-service call that returned last, and its result
  seen,      \* cache key -> the first rate a call returned from a rates table
  probe,     \* one call of analyze_expense or _parse_fallback, and its result
  config,    \* settings: AI_PROVIDER and the two API keys
  processor, \* handlers._expense_processor and whether it was ever asked for
  run,       \* per coroutine: the message handler it is in
  cats,      \* the category table
  expenses,  \* the expense table
  msgs       \* inbound messages taken so far

vars ==
  <<cache, task, calls, last, seen, probe, config, processor, run, cats,
    expenses, msgs>>
pipeVars == <<config, processor, run, cats, expenses, msgs>>

(***************************************************************************)
(* Bounds of the model.                                                    *)
(***************************************************************************)
\* calls made to the currency service by one caller at a time
MaxCalls == 2
\* calls made to the currency service by concurrent callers
MaxRaceCalls == 3
\* inbound messages handled
MaxMessages == 2
\* expenses assembled by concurrent workers on one store
MaxRaceRuns == 3

\* the coroutines that may be in flight together
Tasks == {"a", "b"}

(***************************************************************************)
(* Strings and values.                                                     *)
(***************************************************************************)
USD == <<"U", "S", "D">>
usd == <<"u", "s", "d">>
EUR == <<"E", "U", "R">>
GBP == <<"G", "B", "P">>
D1 == <<"d", "1">>
D2 == <<"d", "2">>
NoStr == <<>>

UpperAlphabet ==
  <<"A", "B", "C", "D", "E", "F", "G", "H", "I", "J", "K", "L", "M", "N", "O",
    "P", "Q", "R", "S", "T", "U", "V", "W", "X", "Y", "Z">>
LowerAlphabet ==
  <<"a", "b", "c", "d", "e", "f", "g", "h", "i", "j", "k", "l", "m", "n", "o",
    "p", "q", "r", "s", "t", "u", "v", "w", "x", "y", "z">>

\* str.upper() on one character
UpperChar(c) ==
  IF \E i \in DOMAIN LowerAlphabet : LowerAlphabet[i] = c
    THEN UpperAlphabet[CHOOSE i \in DOMAIN LowerAlphabet : LowerAlphabet[i] = c]
    ELSE c

\* str.lower() on one character
LowerChar(c) ==
  IF \E i \in DOMAIN UpperAlphabet : UpperAlphabet[i] = c
    THEN LowerAlphabet[CHOOSE i \in DOMAIN UpperAlphabet : UpperAlphabet[i] = c]
    ELSE c

\* str.upper()
Upper(s) == [i \in DOMAIN s |-> UpperChar(s[i])]

\* str.lower()
Lower(s) == [i \in DOMAIN s |-> LowerChar(s[i])]

\* a float
F(v) == [num |-> TRUE, v |-> v]
\* a JSON value that is not a number (null, a string)
NoneVal == [num |-> FALSE, v |-> 0]

\* settings.BASE_CURRENCY
BASE_CURRENCY == config.BASE_CURRENCY

(***************************************************************************)
(* The rate-table backend's answers to GET /latest/<base>.                 *)
(***************************************************************************)
TableCodes == {EUR, GBP}
TableVals == {F(50), F(25), F(0), NoneVal}
\* a table is read at one code only: tables of at most one entry
Tables == {<<>>} \cup UNION {[{c} -> TableVals] : c \in TableCodes}

Responses ==
  {[kind |-> k, table |-> <<>>] :
     k \in {"neterror", "status", "badjson", "norates", "ratesnull"}}
  \cup {[kind |-> "rates", table |-> T] : T \in Tables}

\* the response makes client.get, raise_for_status or response.json raise
Raises(resp) == resp.kind \in {"neterror", "status", "badjson"}

\* dict.get(code, 1.0) on a rates table
TableGet(T, code) == IF code \in DOMAIN T THEN T[code] ELSE F(100)

(***************************************************************************)
(* CurrencyService                                                         *)
(***************************************************************************)
CacheKey(from, to, date) == from \o <<"_">> \o to \o <<"_">> \o date

\* Decimal(str(amount * Decimal(str(rate)))): Decimal(str(rate)) raises
\* InvalidOperation when rate is no number
ConvertResult(amount, rate) ==
  IF rate.num
    THEN [kind |-> "value", v |-> (amount * rate.v) \div 100]
    ELSE [kind |-> "raise", v |-> 0]

\* the quotient the other way round
BridgeRateInverse(fromRate, toRate) ==
  IF toRate.num /\ toRate.v = 0 THEN F(100)
  ELSE IF ~fromRate.num \/ ~toRate.num THEN F(100)
  ELSE F((fromRate.v * 100) \div toRate.v)

\* to_rate / from_rate if from_rate != 0 else 1.0, inside try/except
BridgeRate(fromRate, toRate) ==
  IF fromRate.num /\ fromRate.v = 0 THEN F(100)
  ELSE IF ~fromRate.num \/ ~toRate.num THEN F(100)
  ELSE F((toRate.v * 100) \div fromRate.v)

IdleTask ==
  [pc |-> "idle", entry |-> "none", amount |-> 0, from |-> NoStr, to |-> NoStr,
   date |-> NoStr, reqs |-> 0, fromRate |-> F(100), after |-> FALSE]

NoCall ==
  [id |-> 0, entry |-> "none", amount |-> 0, from |-> NoStr, to |-> NoStr,
   date |-> NoStr, reqs |-> 0, rate |-> NoneVal, how |-> "none",
   after |-> FALSE, ret |-> [kind |-> "none", v |-> 0]]

\* what a finished call hands to its caller: get_exchange_rate's rate, and
\* for convert the product (or the exception).  how: the return statement
\* taken ("hit" line 80, "table" line 96, "bridge" line 99, "failed" line 104)
Returned(tk, rate, how) ==
  [id |-> last.id + 1, entry |-> tk.entry, amount |-> tk.amount,
   from |-> tk.from, to |-> tk.to, date |-> tk.date, reqs |-> tk.reqs,
   rate |-> rate, how |-> how, after |-> tk.after,
   ret |-> IF tk.entry = "rate" THEN [kind |-> "rate", v |-> 0]
           ELSE ConvertResult(tk.amount, rate)]

\* a step's outcome: the call goes on waiting (tk), or returns rate
Waits(tk) == [done |-> FALSE, tk |-> tk, rate |-> NoneVal, how |-> "none"]
ReturnRate(tk, rate, how) == [done |-> TRUE, tk |-> tk, rate |-> rate, how |-> how]

\* get_exchange_rate up to its first await: the cache check, then the request
EnterRate(tk) ==
  LET key == CacheKey(tk.from, tk.to, tk.date) IN
  IF key \in DOMAIN cache
    THEN ReturnRate(tk, cache[key], "hit")
    ELSE Waits([tk EXCEPT !.pc = "latest", !.reqs = @ + 1])

\* _get_direct_rate from the second lookup on
BridgeTo(tk, fromRate) ==
  IF Upper(tk.to) # USD
    THEN Waits([tk EXCEPT !.pc = "fetch_to", !.reqs = @ + 1,
                          !.fromRate = fromRate])
    ELSE ReturnRate(tk, BridgeRate(fromRate, F(100)), "bridge")

\* _get_direct_rate up to its first await
BridgeFrom(tk) ==
  IF Upper(tk.from) # USD
    THEN Waits([tk EXCEPT !.pc = "fetch_from", !.reqs = @ + 1])
    ELSE BridgeTo(tk, F(100))

\* _fetch_rate's value out of a response that did not raise
FetchValue(resp, target) ==
  IF resp.kind = "rates" THEN TableGet(resp.table, Upper(target)) ELSE F(100)

\* _get_direct_rate once _fetch_rate("USD", from_currency) has its response
FetchedFrom(tk, resp) ==
  IF Raises(resp) \/ resp.kind = "ratesnull"
    THEN ReturnRate(tk, F(100), "bridgefailed")
    ELSE BridgeTo(tk, FetchValue(resp, tk.from))

\* _get_direct_rate once _fetch_rate("USD", to_currency) has its response
FetchedTo(tk, resp) ==
  IF Raises(resp) \/ resp.kind = "ratesnull"
    THEN ReturnRate(tk, F(100), "bridgefailed")
    ELSE ReturnRate(tk, BridgeRate(tk.fromRate, FetchValue(resp, tk.to)),
                    "bridge")

\* _get_direct_rate run to its return, given the responses its lookups get
GetDirectRate(tk, fromResp, toResp) ==
  LET entered == BridgeFrom(tk)
      first == IF ~entered.done /\ entered.tk.pc = "fetch_from"
                 THEN FetchedFrom(entered.tk, fromResp) ELSE entered
  IN IF ~first.done /\ first.tk.pc = "fetch_to"
       THEN FetchedTo(first.tk, toResp) ELSE first

\* a cache that keeps its latest entry only
CachePutEvict(key, rate) == [k \in {key} |-> rate]

\* a write that is lost
CachePutNothing(key, rate) == cache

\* a write that keeps the rate a key already has
CachePutKeepFirst(key, rate) ==
  [k \in DOMAIN cache \cup {key} |->
     IF k \in DOMAIN cache THEN cache[k] ELSE rate]

\* self._cache[cache_key] = rate
CachePut(key, rate) ==
  [k \in DOMAIN cache \cup {key} |-> IF k = key THEN rate ELSE cache[k]]

(***************************************************************************)
(* The AI backends' replies.  A reply is text; only the parts the parsers  *)
(* look at are kept: whether prose surrounds the rest, whether the rest is *)
(* wrapped in braces ("braced"), opens a brace and never closes it         *)
(* ("open") or has none ("bare"), whether the syntax between the keys is   *)
(* damaged (broken: a missing comma, say), and the text of the value that  *)
(* follows each of the five keys, empty when the key is absent.            *)
(***************************************************************************)
NoDate == <<>>
\* datetime.now()
Now == <<0, 0, 0>>

AmountTexts ==
  {<<"1", "2", ".", "5">>, <<"7", ".", "0">>, <<"1", ".", "2", ".", "3">>}
CurrencyTexts == {USD, usd, GBP, <<"$">>, <<"E", "U", "R", "O">>}
DateTexts == {<<2024, 3, 1>>, <<2024, 13, 45>>}
DescriptionTexts == {"Coffee"}
CategoryTexts == {"Transporte", "Taxi"}

Replies ==
  [prose : BOOLEAN, shape : {"braced", "open", "bare"}, broken : BOOLEAN,
   amount : AmountTexts \cup {NoStr}, currency : CurrencyTexts \cup {NoStr},
   date : DateTexts \cup {NoDate}, description : DescriptionTexts \cup {""},
   category_name : CategoryTexts \cup {""}]

Digits == {"0", "1", "2", "3", "4", "5", "6", "7", "8", "9"}
DigitVal(c) ==
  CASE c = "0" -> 0 [] c = "1" -> 1 [] c = "2" -> 2 [] c = "3" -> 3
    [] c = "4" -> 4 [] c = "5" -> 5 [] c = "6" -> 6 [] c = "7" -> 7
    [] c = "8" -> 8 [] OTHER -> 9

Dots(s) == {i \in DOMAIN s : s[i] = "."}

RECURSIVE DigitsVal(_)
\* the number a run of digits denotes
DigitsVal(s) ==
  IF s = <<>> THEN 0
  ELSE 10 * DigitsVal(SubSeq(s, 1, Len(s) - 1)) + DigitVal(s[Len(s)])

\* float(s) accepts digits with at most one point
FloatOk(s) ==
  /\ s # <<>>
  /\ \A i \in DOMAIN s : s[i] \in Digits \cup {"."}
  /\ Cardinality(Dots(s)) <= 1
  /\ \E i \in DOMAIN s : s[i] \in Digits

\* float(s), in hundredths (texts here have at most two decimals)
FloatOf(s) ==
  IF Dots(s) = {} THEN 100 * DigitsVal(s)
  ELSE LET p == CHOOSE i \in Dots(s) : TRUE
           frac == SubSeq(s, p + 1, Len(s))
       IN 100 * DigitsVal(SubSeq(s, 1, p - 1))
          + (IF Len(frac) = 0 THEN 0
             ELSE IF Len(frac) = 1 THEN 10 * DigitsVal(frac)
             ELSE DigitsVal(SubSeq(frac, 1, 2)))

\* a JSON number: digits, then at most one point with digits after it
JsonNumber(s) ==
  /\ FloatOk(s)
  /\ s[1] # "."
  /\ s[Len(s)] # "."

\* datetime.strptime(d, "%Y-%m-%d") succeeds
DateOk(d) == d # NoDate /\ d[2] \in 1..12 /\ d[3] \in 1..31

UpperLetters == {UpperAlphabet[i] : i \in DOMAIN UpperAlphabet}

\* re: "([A-Z]{3})" matches the whole quoted value
UpperTriple(s) == Len(s) = 3 /\ \A i \in DOMAIN s : s[i] \in UpperLetters

ExpenseData(amount, currency, description, date, category_name) ==
  [amount |-> amount, currency |-> currency, description |-> description,
   date |-> date, category_name |-> category_name]

NoData == ExpenseData(0, NoStr, "", NoDate, "")
GotData(d) == [kind |-> "data", exc |-> "none", data |-> d]
Raise(exc) == [kind |-> "raise", exc |-> exc, data |-> NoData]

\* the text between the braces is a JSON object
JsonObject(r) ==
  /\ r.shape = "braced"
  /\ ~r.broken
  /\ r.amount # NoStr => JsonNumber(r.amount)

\* json.loads(response_text) succeeds
JsonLoadsWhole(r) == ~r.prose /\ JsonObject(r)

\* re.search(r'\{[^}]+\}', response_text, re.DOTALL) matches
BraceMatch(r) ==
  /\ r.shape = "braced"
  /\ \/ r.broken
     \/ r.amount # NoStr
     \/ r.currency # NoStr
     \/ r.date # NoDate
     \/ r.description # ""
     \/ r.category_name # ""

\* ExpenseData(...) out of the parsed dict
FromJson(r) ==
  GotData(ExpenseData(
    IF r.amount # NoStr THEN FloatOf(r.amount) ELSE 0,
    IF r.currency # NoStr THEN Upper(r.currency) ELSE EUR,
    IF r.description # "" THEN r.description ELSE "Expense",
    IF DateOk(r.date) THEN r.date ELSE Now,
    IF r.category_name # "" THEN r.category_name ELSE "Otros"))

\* _parse_fallback(response_text): the five regular expressions
ParseFallback(r) ==
  IF r.amount # NoStr /\ ~FloatOk(r.amount) THEN Raise("ValueError")
  ELSE GotData(ExpenseData(
    IF r.amount # NoStr THEN FloatOf(r.amount) ELSE 0,
    IF r.currency # NoStr /\ UpperTriple(r.currency)
      THEN Upper(r.currency) ELSE EUR,
    IF r.description # "" THEN r.description ELSE "Expense",
    IF DateOk(r.date) THEN r.date ELSE Now,
    IF r.category_name # "" THEN r.category_name ELSE "Otros"))

\* a backend failure answered with the default ExpenseData
RequestFailedDefault == GotData(ExpenseData(0, EUR, "Expense", Now, "Otros"))

\* except Exception: raise Exception("Failed to analyze expense: ...")
RequestFailed == Raise("Exception")

\* OpenAIProvider.analyze_expense; resp is the backend's answer
OpenAIAnalyze(text, image, resp) ==
  IF ~text /\ ~image THEN Raise("ValueError")
  ELSE IF ~resp.ok THEN RequestFailed
  ELSE IF JsonLoadsWhole(resp.reply) THEN FromJson(resp.reply)
  ELSE ParseFallback(resp.reply)

\* ClaudeProvider.analyze_expense; resp is the backend's answer
ClaudeAnalyze(text, image, resp) ==
  IF ~text /\ ~image THEN Raise("ValueError")
  ELSE IF ~resp.ok THEN RequestFailed
  ELSE IF BraceMatch(resp.reply)
    THEN IF JsonObject(resp.reply) THEN FromJson(resp.reply)
         ELSE Raise("Exception")
  ELSE IF ParseFallback(resp.reply).kind = "raise" THEN Raise("Exception")
  ELSE ParseFallback(resp.reply)

Providers == {"openai", "claude"}

\* AIProvider.analyze_expense
Analyze(provider, text, image, resp) ==
  IF provider = "openai" THEN OpenAIAnalyze(text, image, resp)
  ELSE ClaudeAnalyze(text, image, resp)

BackendAnswers ==
  {[ok |-> FALSE, reply |-> r] : r \in {CHOOSE x \in Replies : TRUE}}
  \cup {[ok |-> TRUE, reply |-> r] : r \in Replies}

(***************************************************************************)
(* Provider selection: create_ai_provider and the handlers' lazy           *)
(* get_expense_processor.                                                  *)
(***************************************************************************)
RECURSIVE LStrip(_, _)
\* str.lstrip(chars)
LStrip(s, chars) ==
  IF s # <<>> /\ Head(s) \in chars THEN LStrip(Tail(s), chars) ELSE s

RECURSIVE RStrip(_, _)
\* str.rstrip(chars)
RStrip(s, chars) ==
  IF s # <<>> /\ s[Len(s)] \in chars
    THEN RStrip(SubSeq(s, 1, Len(s) - 1), chars)
    ELSE s

\* str.strip(chars)
Strip(s, chars) == RStrip(LStrip(s, chars), chars)

Whitespace == {" "}
Quotes == {"\"", "'"}

\* s.split('#')[0]
BeforeHash(s) ==
  LET H == {i \in DOMAIN s : s[i] = "#"}
  IN IF H = {} THEN s
     ELSE SubSeq(s, 1, (CHOOSE i \in H : \A j \in H : i <= j) - 1)

\* a cleaning that keeps the inline comment
CleanProviderNameKeepComment(id) == Strip(Strip(Lower(id), Whitespace), Quotes)

\* the identifier create_ai_provider compares
CleanProviderName(id) ==
  LET lowered == Strip(Lower(id), Whitespace)
      cut == IF \E i \in DOMAIN lowered : lowered[i] = "#"
               THEN Strip(BeforeHash(lowered), Whitespace)
               ELSE lowered
  IN Strip(cut, Quotes)

openai == <<"o", "p", "e", "n", "a", "i">>
claude == <<"c", "l", "a", "u", "d", "e">>

\* an unknown identifier falls back to the first provider
CreateAiProviderLenient(cfg) ==
  LET name == CleanProviderName(cfg.AI_PROVIDER)
  IN IF name = claude
       THEN IF cfg.ANTHROPIC_API_KEY THEN [ok |-> TRUE, provider |-> "claude"]
            ELSE [ok |-> FALSE, provider |-> "none"]
     ELSE IF cfg.OPENAI_API_KEY THEN [ok |-> TRUE, provider |-> "openai"]
     ELSE [ok |-> FALSE, provider |-> "none"]

\* create_ai_provider(): the provider, or ValueError
CreateAiProvider(cfg) ==
  LET name == CleanProviderName(cfg.AI_PROVIDER)
  IN IF name = openai
       THEN IF cfg.OPENAI_API_KEY THEN [ok |-> TRUE, provider |-> "openai"]
            ELSE [ok |-> FALSE, provider |-> "none"]
     ELSE IF name = claude
       THEN IF cfg.ANTHROPIC_API_KEY THEN [ok |-> TRUE, provider |-> "claude"]
            ELSE [ok |-> FALSE, provider |-> "none"]
     ELSE [ok |-> FALSE, provider |-> "none"]

gemini == <<"g", "e", "m", "i", "n", "i">>
\* AI_PROVIDER= "Claude" # prod
QuotedClaude ==
  <<" ", "\"", "C", "l", "a", "u", "d", "e", "\"", " ", "#", " ", "p", "r",
    "o", "d">>

\* the settings a deployment may have
Configs ==
  {[AI_PROVIDER |-> openai, OPENAI_API_KEY |-> TRUE,
    ANTHROPIC_API_KEY |-> FALSE, BASE_CURRENCY |-> EUR],
   [AI_PROVIDER |-> claude, OPENAI_API_KEY |-> FALSE,
    ANTHROPIC_API_KEY |-> TRUE, BASE_CURRENCY |-> EUR],
   [AI_PROVIDER |-> QuotedClaude, OPENAI_API_KEY |-> TRUE,
    ANTHROPIC_API_KEY |-> TRUE, BASE_CURRENCY |-> EUR],
   [AI_PROVIDER |-> openai, OPENAI_API_KEY |-> FALSE,
    ANTHROPIC_API_KEY |-> TRUE, BASE_CURRENCY |-> EUR],
   [AI_PROVIDER |-> gemini, OPENAI_API_KEY |-> TRUE,
    ANTHROPIC_API_KEY |-> TRUE, BASE_CURRENCY |-> EUR]}

NoProcessor == [provider |-> "none", asked |-> FALSE]

\* get_expense_processor(): the cached processor, or a new one
GetExpenseProcessor ==
  IF processor.provider # "none"
    THEN [ok |-> TRUE, provider |-> processor.provider]
    ELSE CreateAiProvider(config)

(***************************************************************************)
(* Expense assembly: what follows the conversion.                          *)
(***************************************************************************)
\* no answer of the AI backend yet
NoAnswer == [ok |-> FALSE, reply |-> CHOOSE x \in Replies : TRUE]

NewRun ==
  [pc |-> "idle", kind |-> "none", declared |-> 0, size |-> 0, tmp |-> FALSE,
   text |-> FALSE, image |-> FALSE, remote |-> {}, answer |-> NoAnswer,
   created |-> FALSE, outcome |-> "none",
   exc |-> "none", err |-> "none", data |-> NoData, converted |-> FALSE,
   rate |-> NoneVal, convRaised |-> FALSE, category |-> 0, expense |-> 0,
   steps |-> <<>>]

\* the log of the run's steps: a step begins, then ends "done" or "failed"
Begin(rn, step) ==
  [rn EXCEPT !.steps = Append(@, [step |-> step, state |-> "running"])]
End(rn, state) == [rn EXCEPT !.steps[Len(rn.steps)].state = state]
Did(rn, step, state) == End(Begin(rn, step), state)

\* an except clause that notes the exception and lets the handler go on
FailedGoesOn(rn, exc, err) == [rn EXCEPT !.exc = exc, !.err = err]

\* the handler's except clause: the run ends with exception exc, raised at err
Failed(rn, exc, err) ==
  [rn EXCEPT !.pc = "done", !.outcome = "error", !.exc = exc, !.err = err]

\* Decimal(str(expense_data.amount))
DecimalOf(amount) == amount * 100

\* a Decimal column with decimal_places=2: the store rounds to hundredths
Round2(x) == ((x + 50) \div 100) * 100

\* a str column with max_length=3: the store refuses a longer value
FitsColumn(s) == Len(s) <= 3

\* Expense(...) as process_expense builds it and the store keeps it
ExpenseRow(d, converted_amount, category) ==
  [amount |-> Round2(DecimalOf(d.amount)), currency |-> Upper(d.currency),
   converted_amount |-> Round2(converted_amount),
   base_currency |-> Upper(BASE_CURRENCY), description |-> d.description,
   date |-> d.date, category |-> category]

\* a conversion failure that is not caught: the run ends without the insert
ConvertedAmountUncaught(amount, conv) ==
  IF conv.kind = "raise" THEN [ok |-> FALSE, v |-> amount]
  ELSE [ok |-> TRUE, v |-> conv.v]

\* try: converted_amount = await convert(...) except Exception: amount
ConvertedAmount(amount, conv) ==
  IF conv.kind = "raise" THEN [ok |-> TRUE, v |-> amount]
  ELSE [ok |-> TRUE, v |-> conv.v]

\* process_expense from the rate lookup's return on: the product, then
\* session.add and commit (converted: whether convert was called; rate: the
\* rate the lookup returned; commit: whether the store accepts the insert)
FinishRun(r, rn, rate, converted, commit) ==
  LET amount == DecimalOf(rn.data.amount)
      conv == IF converted THEN ConvertResult(amount, rate)
              ELSE [kind |-> "value", v |-> amount]
      ca == ConvertedAmount(amount, conv)
      rn0 == IF converted
               THEN End(rn, IF conv.kind = "raise" THEN "failed" ELSE "done")
               ELSE rn
      rn1 == [rn0 EXCEPT !.converted = converted, !.rate = rate,
                         !.convRaised = conv.kind = "raise"]
  IN IF ~ca.ok
       THEN /\ run' = [run EXCEPT ![r] = Failed(rn1, "Exception", "convert")]
            /\ expenses' = expenses
     ELSE IF commit /\ FitsColumn(Upper(rn.data.currency))
       THEN /\ expenses' =
                 Append(expenses,
                        ExpenseRow(rn.data, ca.v, rn.category))
            /\ run' = [run EXCEPT ![r] =
                         [Did(rn1, "persist", "done") EXCEPT
                            !.pc = "done", !.outcome = "saved",
                            !.expense = Len(expenses) + 1]]
     ELSE /\ run' = [run EXCEPT ![r] =
                       Failed(Did(rn1, "persist", "failed"), "Exception",
                              "persist")]
          /\ expenses' = expenses

\* the call of task t takes the step with outcome res
Step(t, res) ==
  /\ task' = [task EXCEPT ![t] = IF res.done THEN IdleTask ELSE res.tk]
  /\ IF res.done /\ res.tk.entry # "pipeline"
       THEN /\ last' = Returned(res.tk, res.rate, res.how)
            /\ seen' = LET key == CacheKey(res.tk.from, res.tk.to, res.tk.date)
                       IN IF res.how = "table" /\ key \notin DOMAIN seen
                            THEN [k \in DOMAIN seen \cup {key} |->
                                    IF k = key THEN res.rate ELSE seen[k]]
                            ELSE seen
       ELSE UNCHANGED <<last, seen>>
  /\ IF res.done /\ res.tk.entry = "pipeline"
       THEN /\ \E commit \in BOOLEAN :
                 FinishRun(t, run[t], res.rate, TRUE, commit)
            /\ UNCHANGED <<config, processor, cats, msgs>>
       ELSE UNCHANGED pipeVars

CallArgs == {<<GBP, EUR, D1>>, <<GBP, EUR, D2>>, <<usd, USD, D1>>}
Amounts == {125000, 1000000}
RaceArgs == {<<GBP, EUR, D1>>, <<GBP, EUR, D2>>}
RaceAmounts == {125000}

\* a comparison that forgets .upper()
SameCurrencyExact(from, to) == from = to

\* from_currency.upper() == to_currency.upper()
SameCurrency(from, to) == Upper(from) = Upper(to)

\* a call begins: its arguments, and whether an earlier call with the same
\* triple has already returned a table's rate
NewCall(entry, a, from, to, date) ==
  [IdleTask EXCEPT !.entry = entry, !.amount = a, !.from = from, !.to = to,
                   !.date = date,
                   !.after = CacheKey(from, to, date) \in DOMAIN seen]

\* convert(amount, from_currency, to_currency, expense_date)
ConvertCall(t, Args, Amts, bound) ==
  /\ task[t].pc = "idle"
  /\ calls < bound
  /\ \E a \in Amts, args \in Args, omit \in BOOLEAN :
       LET to == IF omit THEN BASE_CURRENCY ELSE args[2]
           tk == NewCall("convert", a, args[1], to, args[3])
       IN IF SameCurrency(tk.from, tk.to)
            THEN /\ last' = [Returned(tk, NoneVal, "same") EXCEPT
                               !.ret = [kind |-> "value", v |-> a]]
                 /\ UNCHANGED <<task, seen, pipeVars>>
            ELSE Step(t, EnterRate(tk))
  /\ calls' = calls + 1
  /\ UNCHANGED <<cache, probe>>

\* get_exchange_rate(from_currency, to_currency, expense_date)
GetRateCall(t, Args, bound) ==
  /\ task[t].pc = "idle"
  /\ calls < bound
  /\ \E args \in Args :
       Step(t, EnterRate(NewCall("rate", 0, args[1], args[2], args[3])))
  /\ calls' = calls + 1
  /\ UNCHANGED <<cache, probe>>

\* the answer to get_exchange_rate's own request
LatestReply(t, Resps) ==
  /\ task[t].pc = "latest"
  /\ \E resp \in Resps :
       LET tk == task[t]
           key == CacheKey(tk.from, tk.to, tk.date)
           rate == TableGet(resp.table, Upper(tk.to))
       IN CASE Raises(resp) \/ resp.kind = "ratesnull" ->
                 /\ Step(t, ReturnRate(tk, F(100), "failed"))
                 /\ UNCHANGED cache
            [] resp.kind = "rates" ->
                 /\ cache' = CachePut(key, rate)
                 /\ Step(t, ReturnRate(tk, rate, "table"))
            [] OTHER ->
                 /\ Step(t, BridgeFrom(tk))
                 /\ UNCHANGED cache
  /\ UNCHANGED <<calls, probe>>

\* the answer to _fetch_rate("USD", from_currency)
FetchFromReply(t, Resps) ==
  /\ task[t].pc = "fetch_from"
  /\ \E resp \in Resps :
       Step(t, FetchedFrom(task[t], resp))
  /\ UNCHANGED <<cache, calls, probe>>

\* the answer to _fetch_rate("USD", to_currency)
FetchToReply(t, Resps) ==
  /\ task[t].pc = "fetch_to"
  /\ \E resp \in Resps :
       Step(t, FetchedTo(task[t], resp))
  /\ UNCHANGED <<cache, calls, probe>>

(***************************************************************************)
(* The message handlers: input normalization (DocumentService,             *)
(* FileDownloader, ImageProcessor, DocumentProcessor), then                *)
(* ExpenseProcessor.process_expense.  File sizes are in MiB.               *)
(***************************************************************************)
max_pdf_size == 10
max_image_size == 5

jpg == <<".", "j", "p", "g">>
supported_formats ==
  {jpg, <<".", "j", "p", "e", "g">>, <<".", "p", "n", "g">>,
   <<".", "w", "e", "b", "p">>}

\* inbound messages: a text, a photo or a document; declared is the size
\* the chat platform announces (0: none), size the size of the file
Messages ==
  {[kind |-> "text", pdf |-> FALSE, declared |-> 0, size |-> 0]}
  \cup {[kind |-> "photo", pdf |-> FALSE, declared |-> d[1], size |-> d[2]] :
          d \in {<<3, 3>>, <<7, 7>>, <<12, 12>>, <<0, 7>>}}
  \cup {[kind |-> "document", pdf |-> p, declared |-> d, size |-> d] :
          p \in BOOLEAN, d \in {3, 12}}

\* FileDownloader(max_file_size=max_pdf_size): the size check of download_file
TooLarge(declared) == declared # 0 /\ declared > max_pdf_size

\* ImageProcessor.process_image(path): "ok" or the exception's cause
ProcessImage(suffix, size, decodable) ==
  IF Lower(suffix) \notin supported_formats THEN "format"
  ELSE IF size > max_image_size THEN "image_size"
  ELSE IF ~decodable THEN "decode"
  ELSE "ok"

\* files handed to process_image: the suffix of the path, the size, and
\* what the file holds (an image of some format and mode, or no image)
Suffixes ==
  {jpg, <<".", "J", "P", "G">>, <<".", "j", "p", "e", "g">>,
   <<".", "p", "n", "g">>, <<".", "w", "e", "b", "p">>,
   <<".", "g", "i", "f">>, <<".", "p", "d", "f">>}
Sizes == {3, 5, 7}
Contents ==
  {[decodable |-> FALSE, format |-> "none", mode |-> "none"]}
  \cup [decodable : {TRUE}, format : {"JPEG", "PNG", "WEBP", "GIF"},
        mode : {"RGB", "L", "RGBA", "P"}]

\* an encoder that keeps the format of its input
SavedFormatKept(content) == content.format

\* img.save(buffer, format='JPEG', quality=95)
SavedFormat(content) == "JPEG"

\* img.convert('RGB') unless the mode is RGB or L
SavedMode(content) ==
  IF content.mode \notin {"RGB", "L"} THEN "RGB" ELSE content.mode

\* process_image(file_path): the ProcessedDocument, or the exception raised
ProcessImageResult(suffix, size, content) ==
  LET st == ProcessImage(suffix, size, content.decodable)
  IN IF st = "ok"
       THEN [kind |-> "payload", exc |-> "none", cause |-> "none",
             type |-> "image", encoding |-> SavedFormat(content),
             mode |-> SavedMode(content)]
       ELSE [kind |-> "raise", exc |-> "Exception", cause |-> st,
             type |-> "none", encoding |-> "none", mode |-> "none"]

\* one call of process_image
ImageProbe ==
  /\ probe.fn = "none"
  /\ \E suffix \in Suffixes, size \in Sizes, content \in Contents :
       probe' = [fn |-> "process_image", suffix |-> suffix, size |-> size,
                 content |-> content,
                 result |-> ProcessImageResult(suffix, size, content)]
  /\ UNCHANGED <<cache, task, calls, last, seen, pipeVars>>

\* the reply of the handler's except clauses
ErrorReply(rn) ==
  IF rn.kind \in {"photo", "document"} /\ rn.exc = "ValueError"
    THEN "validation"
    ELSE "generic"

\* the answers of the AI backend and of the rate backend a handler may get
PipelineAnswers ==
  {[ok |-> FALSE, reply |-> CHOOSE x \in Replies : TRUE]}
  \cup {[ok |-> TRUE, reply |-> r] :
          r \in {x \in Replies :
                   /\ ~x.prose /\ x.shape = "braced" /\ ~x.broken
                   /\ x.description # "" /\ x.date = <<2024, 3, 1>>
                   /\ <<x.amount, x.currency, x.category_name>> \in
                        {<<<<"1", "2", ".", "5">>, USD, "Transporte">>,
                         <<<<"1", "2", ".", "5">>, GBP, "Taxi">>,
                         <<<<"7", ".", "0">>, usd, "Taxi">>,
                         <<<<"1", "2", ".", "5">>, NoStr, "Transporte">>,
                         <<NoStr, <<"$">>, "Taxi">>,
                         <<<<"7", ".", "0">>, <<"E", "U", "R", "O">>,
                           "Transporte">>}}}
PipelineResponses ==
  {resp \in Responses :
     \/ resp.kind \in {"neterror", "norates"}
     \/ resp.kind = "rates" /\ resp.table \in [{EUR} -> {F(25), NoneVal}]}

\* str(date)
DigitChar(n) ==
  CASE n = 0 -> "0" [] n = 1 -> "1" [] n = 2 -> "2" [] n = 3 -> "3"
    [] n = 4 -> "4" [] n = 5 -> "5" [] n = 6 -> "6" [] n = 7 -> "7"
    [] n = 8 -> "8" [] n = 9 -> "9"
RECURSIVE IntStr(_)
IntStr(n) ==
  IF n < 10 THEN <<DigitChar(n)>>
  ELSE IntStr(n \div 10) \o <<DigitChar(n % 10)>>
Pad2(n) == IF n < 10 THEN <<"0">> \o IntStr(n) ELSE IntStr(n)
DateStr(d) == IntStr(d[1]) \o <<"-">> \o Pad2(d[2]) \o <<"-">> \o Pad2(d[3])

\* the categories init_db seeds, by id
PredefinedNames ==
  <<"Comida", "Transporte", "Alojamiento", "Entretenimiento", "Salud",
    "Compras", "Servicios", "Otros">>
PredefinedCategories ==
  [i \in DOMAIN PredefinedNames |->
     [name |-> PredefinedNames[i], is_system |-> TRUE]]

\* select(Category).where(Category.name == category_name): the ids found
CategoryIds(name) == {i \in DOMAIN cats : cats[i].name = name}
\* a lookup that never finds a row
FirstCategoryMiss(name) == 0

\* .first(): the row found, 0 when there is none
FirstCategory(name) ==
  IF CategoryIds(name) = {} THEN 0
  ELSE CHOOSE i \in CategoryIds(name) : \A j \in CategoryIds(name) : i <= j
\* Category(name=category_name, ..., is_system=False)
NewCategory(name) == [name |-> name, is_system |-> FALSE]

\* the store has no unique constraint on Category.name
NameTakenNever(name) == FALSE

\* Category.name is unique: the store refuses a second row of the name
NameTaken(name) == CategoryIds(name) # {}

\* a handler up to its first await, for a message out of Msgs
ReceiveOf(r, Msgs) ==
  /\ run[r].pc \in {"idle", "done"}
  /\ task[r].pc = "idle"
  /\ msgs < MaxMessages
  /\ msgs' = msgs + 1
  /\ \E m \in Msgs :
       LET rn == [NewRun EXCEPT !.kind = m.kind, !.declared = m.declared,
                                !.size = m.size]
       IN run' = [run EXCEPT ![r] =
            IF m.kind = "text"
              THEN [Did(rn, "normalize", "done") EXCEPT !.pc = "process",
                                                        !.text = TRUE]
            ELSE IF m.kind = "document" /\ ~m.pdf
              THEN [rn EXCEPT !.pc = "done", !.outcome = "rejected"]
            ELSE [rn EXCEPT !.pc = "download"]]
  /\ UNCHANGED <<cache, task, calls, last, seen, probe, config, processor,
                 cats, expenses>>

\* handle_text_message, handle_photo, handle_document up to the first await
Receive(r) == ReceiveOf(r, Messages)

\* handle_text_message up to the first await
TextMessages == {m \in Messages : m.kind = "text"}
ReceiveText(r) == ReceiveOf(r, TextMessages)

\* FileDownloader.download_file up to the download request
StartDownload(r) ==
  /\ run[r].pc = "download"
  /\ run' = [run EXCEPT ![r] =
       IF TooLarge(@.declared)
         THEN Failed(Did(@, "normalize", "failed"), "ValueError", "size")
         ELSE [Begin(@, "normalize") EXCEPT !.pc = "downloading", !.tmp = TRUE,
                                            !.remote = @ \cup {"download"}]]
  /\ UNCHANGED <<cache, task, calls, last, seen, probe, config, processor,
                 cats, expenses, msgs>>

\* the download's end, then process_image or process_pdf and the cleanup
\* (removed: whether unlink succeeds)
DownloadReply(r) ==
  /\ run[r].pc = "downloading"
  /\ \E ok \in BOOLEAN, removed \in BOOLEAN, decodable \in BOOLEAN,
        pdf \in {"text", "empty", "raise"} :
       LET rn == [run[r] EXCEPT !.tmp = ~removed]
           bad == End(rn, "failed")
           good == End(rn, "done")
           img == ProcessImage(jpg, rn.size, decodable)
       IN run' = [run EXCEPT ![r] =
            IF ~ok THEN Failed(bad, "Exception", "download")
            ELSE IF rn.kind = "photo"
              THEN IF img = "ok" THEN [good EXCEPT !.pc = "process",
                                                   !.image = TRUE]
                   ELSE Failed(bad, "Exception", img)
            ELSE IF pdf = "raise" THEN Failed(bad, "Exception", "pdf")
            ELSE [good EXCEPT !.pc = "process", !.text = pdf = "text"]]
  /\ UNCHANGED <<cache, task, calls, last, seen, probe, config, processor,
                 cats, expenses, msgs>>

\* process_expense from the currency check on: the conversion, or its first
\* await on the rate backend, and the insert of the expense
ConvertAndPersist(r, rn, commit) ==
  LET d == rn.data
      tk == NewCall("pipeline", DecimalOf(d.amount), d.currency,
                    BASE_CURRENCY, DateStr(d.date))
      st == EnterRate(tk)
  IN IF Upper(d.currency) = Upper(BASE_CURRENCY)
       THEN /\ FinishRun(r, rn, NoneVal, FALSE, commit)
            /\ UNCHANGED task
     ELSE IF st.done
       THEN /\ FinishRun(r, Begin(rn, "convert"), st.rate, TRUE, commit)
            /\ UNCHANGED task
     ELSE /\ task' = [task EXCEPT ![r] = st.tk]
          /\ run' = [run EXCEPT ![r] =
                       [Begin(rn, "convert") EXCEPT
                          !.pc = "convert", !.remote = @ \cup {"rate"}]]
          /\ UNCHANGED expenses

\* a new category that is added to the session and never committed
GetOrCreateCategoryUncommitted(name) ==
  IF FirstCategory(name) # 0
    THEN [id |-> FirstCategory(name), created |-> FALSE, refused |-> FALSE,
          table |-> cats]
    ELSE [id |-> Len(cats) + 1, created |-> TRUE,
          refused |-> NameTaken(name), table |-> cats]

\* _get_or_create_category(session, category_name), run without a break:
\* the category, whether it is new, whether the unique constraint refuses
\* the insert, and the table once the insert is committed
GetOrCreateCategory(name) ==
  IF FirstCategory(name) # 0
    THEN [id |-> FirstCategory(name), created |-> FALSE, refused |-> FALSE,
          table |-> cats]
    ELSE [id |-> Len(cats) + 1, created |-> TRUE,
          refused |-> NameTaken(name),
          table |-> Append(cats, NewCategory(name))]

\* get_expense_processor(), then process_expense up to its first await on
\* the rate backend (catCommit, commit: whether the store accepts the writes)
ProcessExpense(r, Answers) ==
  /\ run[r].pc = "process"
  /\ LET sel == GetExpenseProcessor
         rn0 == run[r]
     IN IF ~sel.ok
          THEN /\ run' = [run EXCEPT ![r] = Failed(rn0, "ValueError", "config")]
               /\ processor' = [processor EXCEPT !.asked = TRUE]
               /\ UNCHANGED <<cats, expenses, task>>
          ELSE
            /\ processor' = [provider |-> sel.provider, asked |-> TRUE]
            /\ \E resp \in Answers, catCommit \in BOOLEAN, commit \in BOOLEAN :
                 LET sent == rn0.text \/ rn0.image
                     rn1 == [rn0 EXCEPT
                               !.remote = IF sent THEN @ \cup {"ai"} ELSE @,
                               !.answer = IF sent THEN resp ELSE @]
                     res == Analyze(sel.provider, rn0.text, rn0.image, resp)
                     d == res.data
                     category == GetOrCreateCategory(d.category_name)
                     known == ~category.created
                     rnA == Did(rn1, "analyze", "done")
                     rn2 == [Did(rnA, "category", "done") EXCEPT
                               !.data = d,
                               !.category = category.id,
                               !.created = category.created]
                 IN IF res.kind = "raise"
                      THEN /\ run' = [run EXCEPT ![r] =
                                Failed(Did(rn1, "analyze", "failed"), res.exc,
                                       IF sent THEN "analysis" ELSE "input")]
                           /\ UNCHANGED <<cats, expenses, task>>
                    ELSE IF ~known /\ (category.refused \/ ~catCommit)
                      THEN /\ run' = [run EXCEPT ![r] =
                                Failed(Did(rnA, "category", "failed"),
                                       IF category.refused
                                         THEN "IntegrityError"
                                         ELSE "Exception",
                                       "category")]
                           /\ UNCHANGED <<cats, expenses, task>>
                    ELSE
                      /\ cats' = category.table
                      /\ ConvertAndPersist(r, rn2, commit)
  /\ UNCHANGED <<cache, calls, last, seen, probe, config, msgs>>

(***************************************************************************)
(* Workers of separate processes on one store: their statements interleave, *)
(* so process_expense is taken statement by statement.  (Inside one event   *)
(* loop no await separates the select from the insert of a category.)  The  *)
(* replies are in the base currency: each process has a rate cache of its   *)
(* own, which plays no part here.                                           *)
(***************************************************************************)
RaceAnswers ==
  {[ok |-> TRUE, reply |-> r] :
     r \in {x \in Replies :
              /\ ~x.prose /\ x.shape = "braced" /\ ~x.broken
              /\ x.amount = <<"1", "2", ".", "5">>
              /\ x.currency = NoStr /\ x.description # ""
              /\ x.date = <<2024, 3, 1>>
              /\ x.category_name # ""}}

\* process_expense up to the category lookup: the analysis has returned
BeginResolve(r) ==
  /\ run[r].pc \in {"idle", "done"}
  /\ msgs < MaxRaceRuns
  /\ msgs' = msgs + 1
  /\ \E resp \in RaceAnswers :
       run' = [run EXCEPT ![r] =
                 [Did(Did(NewRun, "normalize", "done"), "analyze", "done")
                    EXCEPT !.kind = "text", !.text = TRUE,
                                !.remote = {"ai"}, !.pc = "select",
                                !.data = Analyze("openai", TRUE, FALSE,
                                                 resp).data]]
  /\ UNCHANGED <<cache, task, calls, last, seen, probe, config, processor,
                 cats, expenses>>

\* _get_or_create_category: the select
SelectCategory(r) ==
  /\ run[r].pc = "select"
  /\ LET found == FirstCategory(run[r].data.category_name)
     IN run' = [run EXCEPT ![r] =
                  IF found # 0
                    THEN [Did(@, "category", "done") EXCEPT
                            !.pc = "persist", !.category = found]
                    ELSE [Begin(@, "category") EXCEPT !.pc = "insert"]]
  /\ UNCHANGED <<cache, task, calls, last, seen, probe, config, processor,
                 cats, expenses, msgs>>

\* _get_or_create_category: session.add(category), session.commit()
InsertCategory(r) ==
  /\ run[r].pc = "insert"
  /\ LET name == run[r].data.category_name
     IN IF NameTaken(name)
          THEN /\ run' = [run EXCEPT ![r] =
                            Failed(End(@, "failed"), "IntegrityError",
                                   "category")]
               /\ UNCHANGED cats
          ELSE /\ cats' = Append(cats, NewCategory(name))
               /\ run' = [run EXCEPT ![r] =
                            [End(@, "done") EXCEPT
                               !.pc = "persist", !.category = Len(cats) + 1,
                               !.created = TRUE]]
  /\ UNCHANGED <<cache, task, calls, last, seen, probe, config, processor,
                 expenses, msgs>>

\* process_expense from the currency check on
PersistExpense(r) ==
  /\ run[r].pc = "persist"
  /\ \E commit \in BOOLEAN : ConvertAndPersist(r, run[r], commit)
  /\ UNCHANGED <<cache, calls, last, seen, probe, config, processor, cats,
                 msgs>>

(***************************************************************************)
(* Raw AI_PROVIDER values: an identifier in some letter case, with         *)
(* whitespace, quote characters and an inline comment around it.           *)
(***************************************************************************)
RawPrefixes == {<<>>, <<" ">>, <<"\"">>, <<" ", "\"">>, <<"\"", " ">>, <<"'">>}
RawNames == {<<"o", "p", "e", "n", "a", "i">>,
   <<"O", "p", "e", "n", "A", "I">>,
   <<"c", "l", "a", "u", "d", "e">>,
   <<"C", "l", "a", "u", "d", "E">>,
   <<"g", "e", "m", "i", "n", "i">>,
   <<>>}
RawSuffixes == {<<>>,
   <<" ">>,
   <<"\"">>,
   <<"\"", " ">>,
   <<" ", "\"">>,
   <<" ", "#", " ", "c">>,
   <<"\"", " ", "#", " ", "c">>,
   <<"#", "o", "p", "e", "n", "a", "i">>,
   <<"'">>}
RawValues ==
  {p \o n \o q : p \in RawPrefixes, n \in RawNames, q \in RawSuffixes}

RawConfigs ==
  {[AI_PROVIDER |-> raw, OPENAI_API_KEY |-> ko, ANTHROPIC_API_KEY |-> ka,
    BASE_CURRENCY |-> EUR] :
     raw \in RawValues, ko \in BOOLEAN, ka \in BOOLEAN}

\* the first get_expense_processor() of the process
SelectProvider ==
  /\ ~processor.asked
  /\ processor' = [provider |-> GetExpenseProcessor.provider, asked |-> TRUE]
  /\ UNCHANGED <<cache, task, calls, last, seen, probe, config, run, cats,
                 expenses, msgs>>

NoProbe ==
  [fn |-> "none", provider |-> "none", text |-> FALSE, image |-> FALSE,
   resp |-> [ok |-> FALSE, reply |-> CHOOSE x \in Replies : TRUE],
   result |-> Raise("none")]

\* one call of analyze_expense
AnalyzeProbe ==
  /\ probe.fn = "none"
  /\ \E p \in Providers, text \in BOOLEAN, image \in BOOLEAN,
        resp \in BackendAnswers :
       probe' = [fn |-> "analyze", provider |-> p, text |-> text,
                 image |-> image, resp |-> resp,
                 result |-> Analyze(p, text, image, resp)]
  /\ UNCHANGED <<cache, task, calls, last, seen, pipeVars>>

\* one call of _parse_fallback, on a reply that is no JSON
FallbackProbe ==
  /\ probe.fn = "none"
  /\ \E p \in Providers, r \in Replies :
       /\ ~JsonObject(r)
       /\ probe' = [fn |-> "fallback", provider |-> p, text |-> TRUE,
                    image |-> FALSE, resp |-> [ok |-> TRUE, reply |-> r],
                    result |-> ParseFallback(r)]
  /\ UNCHANGED <<cache, task, calls, last, seen, pipeVars>>

\* nothing has run yet: empty cache, seeded categories, no processor
Fresh ==
  /\ cache = <<>>
  /\ task = [t \in Tasks |-> IdleTask]
  /\ calls = 0
  /\ last = NoCall
  /\ seen = <<>>
  /\ probe = NoProbe
  /\ processor = NoProcessor
  /\ run = [t \in Tasks |-> NewRun]
  /\ cats = PredefinedCategories
  /\ expenses = <<>>
  /\ msgs = 0

Init ==
  Fresh /\ config = CHOOSE c \in Configs : c.AI_PROVIDER = openai /\ c.OPENAI_API_KEY

InitPipeline == Fresh /\ config \in Configs

InitSelect == Fresh /\ config \in RawConfigs

\* the currency service used by one caller at a time
Next ==
  \/ ConvertCall("a", CallArgs, Amounts, MaxCalls)
  \/ GetRateCall("a", CallArgs, MaxCalls)
  \/ LatestReply("a", Responses)
  \/ FetchFromReply("a", Responses)
  \/ FetchToReply("a", Responses)

Spec == Init /\ [][Next]_vars

\* the currency service used by concurrent callers
NextRace ==
  \E t \in Tasks :
    \/ ConvertCall(t, RaceArgs, RaceAmounts, MaxRaceCalls)
    \/ GetRateCall(t, RaceArgs, MaxRaceCalls)
    \/ LatestReply(t, Responses)
    \/ FetchFromReply(t, Responses)
    \/ FetchToReply(t, Responses)

SpecRace == Init /\ [][NextRace]_vars

\* the providers' analyze_expense and _parse_fallback, one call each
NextParse ==
  \/ AnalyzeProbe
  \/ FallbackProbe

SpecParse == Init /\ [][NextParse]_vars

\* one handler at a time, from the message to the stored expense
NextPipeline ==
  \/ Receive("a")
  \/ StartDownload("a")
  \/ DownloadReply("a")
  \/ ProcessExpense("a", PipelineAnswers)
  \/ LatestReply("a", PipelineResponses)
  \/ FetchFromReply("a", PipelineResponses)
  \/ FetchToReply("a", PipelineResponses)

SpecPipeline == InitPipeline /\ [][NextPipeline]_vars

\* two workers on one store
NextWorkers ==
  \E r \in Tasks :
    \/ BeginResolve(r)
    \/ SelectCategory(r)
    \/ InsertCategory(r)
    \/ PersistExpense(r)

SpecWorkers == Init /\ [][NextWorkers]_vars

\* process_image alone
NextImage == ImageProbe

SpecImage == Init /\ [][NextImage]_vars

\* the handler under each base currency an installation may configure, with
\* replies that name a currency and replies, well formed and not, that name
\* none
BaseCurrencies == {EUR, USD, GBP}
BaseConfigs ==
  {[c EXCEPT !.BASE_CURRENCY = b] :
     c \in {x \in Configs : CreateAiProvider(x).ok}, b \in BaseCurrencies}
BaseAnswers ==
  {[ok |-> TRUE, reply |-> r] :
     r \in {x \in Replies :
              /\ ~x.prose /\ x.shape = "braced"
              /\ x.description # "" /\ x.date = <<2024, 3, 1>>
              /\ x.amount = <<"1", "2", ".", "5">>
              /\ x.category_name = "Transporte"
              /\ \/ x.currency = NoStr
                 \/ x.currency = USD /\ ~x.broken}}

InitBase == Fresh /\ config \in BaseConfigs

NextBase ==
  \/ Receive("a")
  \/ StartDownload("a")
  \/ DownloadReply("a")
  \/ ProcessExpense("a", BaseAnswers)
  \/ LatestReply("a", PipelineResponses)
  \/ FetchFromReply("a", PipelineResponses)
  \/ FetchToReply("a", PipelineResponses)

SpecBase == InitBase /\ [][NextBase]_vars

\* two handlers of one event loop: a handler runs from one await to the
\* next, and the other may run while it waits for the rate backend
LoopAnswers ==
  {a \in PipelineAnswers :
     a.ok /\ a.reply.category_name = "Taxi" /\ a.reply.amount # NoStr}

NextLoop ==
  \E r \in Tasks :
    \/ ReceiveText(r)
    \/ ProcessExpense(r, LoopAnswers)
    \/ LatestReply(r, PipelineResponses)
    \/ FetchFromReply(r, PipelineResponses)
    \/ FetchToReply(r, PipelineResponses)

SpecLoop == Init /\ [][NextLoop]_vars

\* one run of _get_direct_rate, entered from get_exchange_rate after its own
\* request (reqs = 1) returned a body with no rates table
BridgeCodes == {USD, usd, EUR, GBP}
DirectRateProbe ==
  /\ probe.fn = "none"
  /\ \E from \in BridgeCodes, to \in BridgeCodes,
        fromResp \in Responses, toResp \in Responses :
       LET tk == [NewCall("rate", 0, from, to, D1) EXCEPT
                    !.pc = "latest", !.reqs = 1]
           res == GetDirectRate(tk, fromResp, toResp)
       IN probe' = [fn |-> "_get_direct_rate", from |-> from, to |-> to,
                    fromResp |-> fromResp, toResp |-> toResp,
                    rate |-> res.rate, how |-> res.how,
                    lookups |-> res.tk.reqs - 1]
  /\ UNCHANGED <<cache, task, calls, last, seen, pipeVars>>

NextBridge == DirectRateProbe

SpecBridge == Init /\ [][NextBridge]_vars

\* the provider selection alone, over the raw values
NextSelect == SelectProvider

SpecSelect == InitSelect /\ [][NextSelect]_vars

(***************************************************************************)
(* Claims about the currency service.                                      *)
(***************************************************************************)
LastKey == CacheKey(last.from, last.to, last.date)

\* C1: a convert call whose from_currency and to_currency (the base currency
\* when omitted) are equal ignoring case returns its amount unchanged, issues
\* no network request and leaves the rate cache unchanged.
C1_SameCurrencyFastPath ==
  [][(last'.id # last.id /\ last'.entry = "convert"
        /\ Upper(last'.from) = Upper(last'.to))
     => /\ last'.ret = [kind |-> "value", v |-> last'.amount]
        /\ last'.reqs = 0
        /\ task' = task
        /\ cache' = cache]_vars

\* a same-currency convert (codes differing in case) returned its amount
\* while the cache held an entry
C1_Witness ==
  /\ last.entry = "convert"
  /\ Upper(last.from) = Upper(last.to)
  /\ last.from # last.to
  /\ last.ret = [kind |-> "value", v |-> last.amount]
  /\ last.reqs = 0
  /\ DOMAIN cache # {}

\* C2: get_exchange_rate returns a numeric rate for every outcome of the
\* lookup, and 1.0 when the lookup fails entirely.
C2_AlwaysNumericRate ==
  (last.id > 0 /\ last.how # "same")
    => /\ last.rate.num
       /\ last.how \in {"failed", "bridgefailed"} => last.rate = F(100)

\* C3 as stated: a call begun after a call with the same triple returned a
\* table's rate r returns r, without a network request.
C3_LaterCallsReturnFirstRate ==
  last.after => (last.reqs = 0 /\ last.rate = seen[LastKey])

\* C3 amended: a call begun after a call with the same triple returned a
\* table's rate returns the rate cached for the triple, without a network
\* request; no entry is ever removed, and an entry's rate changes only when
\* a call for the same triple that had already missed the cache receives a
\* table.
C3_LaterCallsReturnCachedRate ==
  [][/\ (last'.id # last.id /\ last'.after)
          => /\ last'.how = "hit"
             /\ last'.reqs = 0
             /\ CacheKey(last'.from, last'.to, last'.date) \in DOMAIN cache
             /\ last'.rate = cache[CacheKey(last'.from, last'.to, last'.date)]
             /\ cache' = cache
     /\ \A k \in DOMAIN cache :
          /\ k \in DOMAIN cache'
          /\ cache'[k] # cache[k]
               => \E t \in Tasks :
                    /\ task[t].pc = "latest"
                    /\ CacheKey(task[t].from, task[t].to, task[t].date) = k
                    /\ task'[t].pc = "idle"]_vars

\* a later call hit the cache and returned the first rate
C3_Witness ==
  /\ last.after
  /\ last.how = "hit"
  /\ last.reqs = 0
  /\ last.rate = seen[LastKey]
  /\ last.rate.num


(***************************************************************************)
(* Claims about the AI providers.                                          *)
(***************************************************************************)
Reply == probe.resp.reply

AllFive(r) ==
  /\ r.amount # NoStr
  /\ r.currency # NoStr
  /\ r.date # NoDate
  /\ r.description # ""
  /\ r.category_name # ""

\* the value a field's text denotes
WellFormed(r) ==
  /\ r.amount # NoStr => FloatOk(r.amount)
  /\ r.date # NoDate => DateOk(r.date)

Recovered(r) ==
  ExpenseData(
    IF r.amount # NoStr THEN FloatOf(r.amount) ELSE 0,
    IF r.currency # NoStr THEN Upper(r.currency) ELSE EUR,
    IF r.description # "" THEN r.description ELSE "Expense",
    IF r.date # NoDate THEN r.date ELSE Now,
    IF r.category_name # "" THEN r.category_name ELSE "Otros")

\* C5: for both providers, a reply that holds no JSON object (a
\* brace-delimited substring that is malformed JSON included) does not make
\* analyze_expense fail: it returns the regex fallback's ExpenseData.
C5_UnparsableReplyFallsBack ==
  (probe.fn = "analyze" /\ (probe.text \/ probe.image) /\ probe.resp.ok
     /\ ~JsonObject(Reply) /\ WellFormed(Reply))
    => probe.result = ParseFallback(Reply)

\* C6: for both providers, a valid JSON object with the five keys, wrapped in
\* prose and with a lower-case currency code, yields the object's amount,
\* description, date and category_name and the upper-cased currency code.
C6_ProseWrappedJsonLowerCurrency ==
  (probe.fn = "analyze" /\ (probe.text \/ probe.image) /\ probe.resp.ok
     /\ Reply.prose /\ JsonObject(Reply) /\ AllFive(Reply)
     /\ WellFormed(Reply) /\ Reply.currency # Upper(Reply.currency))
    => probe.result = GotData(Recovered(Reply))

\* C7: _parse_fallback returns, for every subset of the five fields present
\* in a reply that is no JSON, exactly the present fields' values and the
\* defaults (0.0, EUR, "Expense", today, "Otros") for the others.
C7_FallbackRecoversEachField ==
  (probe.fn = "fallback" /\ WellFormed(Reply))
    => probe.result = GotData(Recovered(Reply))

\* C8: for both providers, when the backend request fails analyze_expense
\* raises the analysis error and returns no ExpenseData.
C8_RequestFailureRaises ==
  (probe.fn = "analyze" /\ (probe.text \/ probe.image) /\ ~probe.resp.ok)
    => probe.result = Raise("Exception")

\* both kinds of call were made with a failing backend request
C8_Witness ==
  /\ probe.fn = "analyze"
  /\ probe.provider = "claude"
  /\ probe.image
  /\ ~probe.resp.ok
  /\ probe.result.kind = "raise"

(***************************************************************************)
(* Claims about the message handlers.                                      *)
(***************************************************************************)
\* the run of r got past AI analysis and category resolution
Resolved(rn) == rn.category # 0

\* C4: a run in which AI analysis and category resolution succeeded is never
\* stopped by the currency conversion, whatever its outcome: it ends with the
\* expense in the expense table unless the store itself refuses the insert,
\* and when convert raised, the stored converted_amount is the amount.
C4_ConversionNeverBlocksPersistence ==
  \A r \in Tasks :
    run[r].pc = "done" /\ Resolved(run[r]) =>
      /\ run[r].err \in {"none", "persist"}
      /\ run[r].outcome = "saved" =>
           /\ run[r].expense \in DOMAIN expenses
           /\ expenses[run[r].expense].amount = DecimalOf(run[r].data.amount)
           /\ run[r].convRaised =>
                expenses[run[r].expense].converted_amount =
                  expenses[run[r].expense].amount

\* a run whose conversion raised and whose expense is stored all the same
C4_Witness ==
  \E r \in Tasks :
    /\ run[r].outcome = "saved" /\ run[r].convRaised
    /\ expenses[run[r].expense].converted_amount = DecimalOf(run[r].data.amount)
    /\ expenses[run[r].expense].currency # Upper(BASE_CURRENCY)

\* the run ended with an input error: no input for the analysis, a file over
\* a configured ceiling, an unsupported image format
InputError(rn) == rn.err \in {"input", "size", "image_size", "format"}

\* C9: a run that ends with an input error has issued no remote call (file
\* download, AI backend request, rate lookup).
C9_InputErrorsBeforeRemoteCalls ==
  \A r \in Tasks : InputError(run[r]) => run[r].remote = {}

\* the settings name no known provider, or the named provider has no key
BadConfig ==
  LET name == CleanProviderName(config.AI_PROVIDER)
  IN \/ name \notin {openai, claude}
     \/ name = openai /\ ~config.OPENAI_API_KEY
     \/ name = claude /\ ~config.ANTHROPIC_API_KEY

\* C10 as stated: a configuration error arises before any inbound message
\* is handled.
C10_SelectedAtProcessStart ==
  \A r \in Tasks : run[r].err = "config" => msgs = 0

\* C10, amended: the provider is selected when the first message reaches
\* expense processing.  With bad settings no provider is ever installed,
\* every message that gets that far ends in a configuration error (a
\* ValueError) and no AI request is issued; the selection is asked for only
\* once a message is being handled; and the provider installed is the one
\* the settings name and never changes.
C10_SelectedAtFirstUse ==
  /\ BadConfig =>
       /\ processor.provider = "none"
       /\ expenses = <<>>
       /\ \A r \in Tasks :
            /\ "ai" \notin run[r].remote
            /\ run[r].pc = "done" /\ run[r].outcome = "error" =>
                 \/ run[r].err = "config" /\ run[r].exc = "ValueError"
                 \/ run[r].err \in {"size", "download", "image_size", "decode",
                                   "pdf"}
  /\ ~BadConfig => \A r \in Tasks : run[r].err # "config"
  /\ processor.asked => msgs > 0
  /\ processor.provider # "none" =>
       /\ processor.asked
       /\ processor.provider = "openai" =>
            CleanProviderName(config.AI_PROVIDER) = openai
       /\ processor.provider = "claude" =>
            CleanProviderName(config.AI_PROVIDER) = claude

\* a second message that fails on the settings, as the first did, after its
\* file was downloaded
C10_Witness ==
  \E r \in Tasks :
    /\ run[r].err = "config"
    /\ "download" \in run[r].remote
    /\ msgs >= 2

(***************************************************************************)
(* Claims about the provider selection.                                    *)
(***************************************************************************)
AllIn(s, C) == \A i \in DOMAIN s : s[i] \in C

\* the raw value up to its inline comment
Uncommented(s) ==
  IF \E i \in DOMAIN s : s[i] = "#"
    THEN SubSeq(s, 1, (CHOOSE i \in DOMAIN s :
                         s[i] = "#" /\ \A j \in 1..(i - 1) : s[j] # "#") - 1)
    ELSE s

\* raw is name in some letter case with only whitespace and quote
\* characters, in any order, around it, and maybe an inline comment
NamesLoosely(raw, name) ==
  LET b == Uncommented(raw)
  IN \E i \in 1..(Len(b) + 1) :
       LET j == i + Len(name) - 1
       IN /\ j <= Len(b)
          /\ Lower(SubSeq(b, i, j)) = name
          /\ AllIn(SubSeq(b, 1, i - 1), Whitespace \cup Quotes)
          /\ AllIn(SubSeq(b, j + 1, Len(b)), Whitespace \cup Quotes)

\* s is whitespace outside, quote characters inside (left of the name)
WhitespaceThenQuotes(s) ==
  \E k \in 0..Len(s) :
    /\ AllIn(SubSeq(s, 1, k), Whitespace)
    /\ AllIn(SubSeq(s, k + 1, Len(s)), Quotes)

\* s is quote characters inside, whitespace outside (right of the name)
QuotesThenWhitespace(s) ==
  \E k \in 0..Len(s) :
    /\ AllIn(SubSeq(s, 1, k), Quotes)
    /\ AllIn(SubSeq(s, k + 1, Len(s)), Whitespace)

\* as NamesLoosely, with the whitespace outside the quote characters
Names(raw, name) ==
  LET b == Uncommented(raw)
  IN \E i \in 1..(Len(b) + 1) :
       LET j == i + Len(name) - 1
       IN /\ j <= Len(b)
          /\ Lower(SubSeq(b, i, j)) = name
          /\ WhitespaceThenQuotes(SubSeq(b, 1, i - 1))
          /\ QuotesThenWhitespace(SubSeq(b, j + 1, Len(b)))

\* C11 as stated: the raw value alone decides; a value that is a known
\* identifier once letter case, surrounding whitespace, an inline comment
\* and surrounding quote characters are ignored selects that provider, and
\* every other value selects nothing.
C11_SelectionIgnoresDecoration ==
  processor.asked =>
    /\ processor.provider = "openai" <=> NamesLoosely(config.AI_PROVIDER, openai)
    /\ processor.provider = "claude" <=> NamesLoosely(config.AI_PROVIDER, claude)

\* C11, amended: a provider is selected exactly when the raw value is its
\* identifier in some letter case, inside quote characters (if any), inside
\* whitespace (if any), before an inline comment (if any), and the
\* provider's API key is set; otherwise nothing is selected.
C11_SelectionByCleanedValueAndKey ==
  processor.asked =>
    /\ processor.provider = "openai" <=>
         Names(config.AI_PROVIDER, openai) /\ config.OPENAI_API_KEY
    /\ processor.provider = "claude" <=>
         Names(config.AI_PROVIDER, claude) /\ config.ANTHROPIC_API_KEY
    /\ processor.provider \in {"openai", "claude", "none"}

\* a quoted, commented, mixed-case value that selected its provider
C11_Witness ==
  /\ processor.asked
  /\ processor.provider = "claude"
  /\ config.AI_PROVIDER # Lower(config.AI_PROVIDER)
  /\ \E i \in DOMAIN config.AI_PROVIDER : config.AI_PROVIDER[i] = "#"
  /\ config.AI_PROVIDER[1] \in Whitespace
  /\ \E i \in DOMAIN config.AI_PROVIDER : config.AI_PROVIDER[i] \in Quotes

(***************************************************************************)
(* Claims about the category table.                                        *)
(***************************************************************************)
\* no two rows of the category table have the same name
UniqueNames(table) ==
  \A i, j \in DOMAIN table : table[i].name = table[j].name => i = j

\* the run of r has just resolved its category
Resolves(r) == ~Resolved(run[r]) /\ Resolved(run'[r])

\* C12: with one run at a time, the category table grows only by one
\* non-system row for a name it did not hold, which the run that introduced
\* the name then references; a run whose name the table holds references
\* that row and adds none, and is never refused by the unique constraint; no
\* name ever has two rows, and a stored expense references the row of its
\* category name.
C12_SequentialGetOrCreate ==
  [][/\ cats' # cats =>
          \E r \in Tasks :
            LET n == run'[r].data.category_name
            IN /\ Resolves(r)
               /\ CategoryIds(n) = {}
               /\ cats' = Append(cats, [name |-> n, is_system |-> FALSE])
               /\ run'[r].category = Len(cats')
     /\ \A r \in Tasks :
          Resolves(r) /\ CategoryIds(run'[r].data.category_name) # {} =>
            /\ cats' = cats
            /\ run'[r].category \in CategoryIds(run'[r].data.category_name)
     /\ UniqueNames(cats')
     /\ \A r \in Tasks : run'[r].exc # "IntegrityError"
     /\ \A r \in Tasks :
          run'[r].outcome = "saved" =>
            /\ expenses'[run'[r].expense].category = run'[r].category
            /\ cats'[run'[r].category].name = run'[r].data.category_name
    ]_vars

\* two expenses stored one after the other under the same new name: one new
\* row, not a system one, referenced by both
C12_Witness ==
  /\ Len(expenses) = 2
  /\ expenses[1].category = expenses[2].category
  /\ Len(cats) = Len(PredefinedCategories) + 1
  /\ expenses[1].category = Len(cats)
  /\ ~cats[Len(cats)].is_system

\* C13: two concurrent runs that bring the same unseen category name may
\* both find no row and both attempt the insert; the store's unique
\* constraint keeps the table free of two rows of a name, and the run whose
\* insert is refused ends there with the store's error: no retry, no second
\* lookup, no expense.
C13_UniqueConstraintIsTheBackstop ==
  /\ UniqueNames(cats)
  /\ \A r \in Tasks :
       run[r].exc = "IntegrityError" =>
         /\ run[r].pc = "done" /\ run[r].outcome = "error"
         /\ run[r].category = 0 /\ run[r].expense = 0
         /\ CategoryIds(run[r].data.category_name) # {}
  /\ \A i \in DOMAIN expenses : expenses[i].category \in DOMAIN cats

\* both runs found no row for the name; one inserted it, the other was refused
C13_Witness ==
  \E r1, r2 \in Tasks :
    /\ r1 # r2
    /\ run[r1].data.category_name = run[r2].data.category_name
    /\ run[r1].exc = "IntegrityError"
    /\ run[r2].category = Len(cats)
    /\ Len(cats) = Len(PredefinedCategories) + 1
    /\ run[r2].outcome = "saved"

(***************************************************************************)
(* Claims about the stored expense.                                        *)
(***************************************************************************)
\* the expense the run of r stored
Stored(r) == expenses[run[r].expense]

\* C14: a stored expense in the base currency has converted_amount equal to
\* amount; any other has converted_amount equal to amount times the rate
\* the rate lookup returned for (currency, base_currency, date), rounded to
\* hundredths.
C14_ConvertedAmountIsProduct ==
  \A r \in Tasks :
    run[r].outcome = "saved" =>
      IF Stored(r).currency = Stored(r).base_currency
        THEN Stored(r).converted_amount = Stored(r).amount
        ELSE /\ run[r].rate.num
             /\ Stored(r).converted_amount =
                  Round2((Stored(r).amount * run[r].rate.v) \div 100)

\* C15: in every stored expense, whatever currency string the AI backend
\* returned, currency and base_currency are three upper-case letters.
C15_CurrencyCodesAreUpperTriples ==
  \A i \in DOMAIN expenses :
    /\ UpperTriple(expenses[i].currency)
    /\ UpperTriple(expenses[i].base_currency)

(***************************************************************************)
(* Claims about the order of a run's steps and its temporary file.         *)
(***************************************************************************)
StepOrder == <<"normalize", "analyze", "category", "convert", "persist">>
Rank(step) == CHOOSE i \in DOMAIN StepOrder : StepOrder[i] = step

\* C16: within a run the steps begin in the order normalization, AI
\* analysis, category resolution, conversion, persistence, each at most
\* once and none skipped but the conversion (which is not called for the
\* base currency); a step begins only when every earlier one has ended, and
\* only when every earlier one ended well, but that persistence follows a
\* failed conversion; and a run that stored its expense went through them
\* all.
C16_StepsInOrder ==
  \A r \in Tasks :
    LET st == run[r].steps
    IN /\ \A i \in DOMAIN st :
            /\ st[i].step \in {StepOrder[k] : k \in DOMAIN StepOrder}
            /\ i = 1 => st[i].step = "normalize"
            /\ i > 1 =>
                 /\ Rank(st[i - 1].step) < Rank(st[i].step)
                 /\ Rank(st[i].step) - Rank(st[i - 1].step) = 1
                      \/ (st[i - 1].step = "category" /\ st[i].step = "persist")
                 /\ st[i - 1].state = "done"
                      \/ (st[i - 1].step = "convert" /\ st[i - 1].state = "failed"
                          /\ st[i].step = "persist")
       /\ run[r].outcome = "saved" =>
            /\ st # <<>> /\ st[Len(st)] = [step |-> "persist", state |-> "done"]
       /\ (run[r].pc = "done" /\ st # <<>>) => st[Len(st)].state # "running"

\* a run that stored its expense after all five steps, the conversion failed
C16_Witness ==
  \E r \in Tasks :
    /\ run[r].outcome = "saved"
    /\ Len(run[r].steps) = 5
    /\ run[r].steps[4] = [step |-> "convert", state |-> "failed"]
    /\ run[r].kind = "photo"

\* C17: once process_document or process_photo has returned or raised, on
\* whichever path, the temporary file of the download no longer exists.
C17_TempFileRemoved ==
  \A r \in Tasks : run[r].pc \in {"process", "convert", "done"} => ~run[r].tmp

\* C18: an image refused for its format or its size fails with a ValueError,
\* which the photo handler answers with the validation reply and not the
\* generic one.
C18_ImageRefusalIsValidationError ==
  \A r \in Tasks :
    run[r].err \in {"format", "image_size"} =>
      /\ run[r].exc = "ValueError"
      /\ ErrorReply(run[r]) = "validation"

(***************************************************************************)
(* Claims about process_image.                                             *)
(***************************************************************************)
\* C20: for a file that holds an image, has a supported suffix (jpg, jpeg,
\* png, webp, in any letter case) and is within the size ceiling,
\* process_image returns a payload of type "image" encoded as JPEG, whatever
\* the format of the input.
C20_SupportedImagesBecomeJpeg ==
  (/\ probe.fn = "process_image"
   /\ Lower(probe.suffix) \in supported_formats
   /\ probe.size <= max_image_size
   /\ probe.content.decodable)
    => /\ probe.result.kind = "payload"
       /\ probe.result.type = "image"
       /\ probe.result.encoding = "JPEG"

\* a PNG with transparency, under a .png path, came back as JPEG
C20_Witness ==
  /\ probe.fn = "process_image"
  /\ probe.suffix = <<".", "p", "n", "g">>
  /\ probe.content.format = "PNG" /\ probe.content.mode = "RGBA"
  /\ probe.result.kind = "payload" /\ probe.result.encoding = "JPEG"
  /\ probe.result.mode = "RGB"

(***************************************************************************)
(* Claims about concurrent writers of the rate cache.                      *)
(***************************************************************************)
\* C19 as stated: every write to a key stores the same value, so the cached
\* rate and the rates returned from a table for the key are those of the
\* first write, whatever the interleaving.
C19_ConcurrentWritesAgree ==
  /\ \A k \in DOMAIN cache : k \in DOMAIN seen /\ cache[k] = seen[k]
  /\ last.how = "table" => last.rate = seen[LastKey]

\* C19, amended: each call that missed the cache and receives a rates table
\* stores, and returns, the rate of its own response, and nothing else
\* writes the cache; the key holds the rate of the write that came last.
C19_LastWriterWins ==
  [][/\ (last'.id # last.id /\ last'.how = "table")
          => /\ CacheKey(last'.from, last'.to, last'.date) \in DOMAIN cache'
             /\ cache'[CacheKey(last'.from, last'.to, last'.date)] = last'.rate
     /\ \A k \in DOMAIN cache' :
          (k \notin DOMAIN cache \/ cache'[k] # cache[k])
            => /\ last'.id # last.id
               /\ last'.how = "table"
               /\ k = CacheKey(last'.from, last'.to, last'.date)
    ]_vars

\* two calls missed the cache for one key, and the second write replaced
\* the first with another rate, which its call returned
C19_Witness ==
  /\ last.how = "table"
  /\ ~last.after
  /\ LastKey \in DOMAIN seen
  /\ cache[LastKey] = last.rate
  /\ cache[LastKey] # seen[LastKey]
  /\ last.rate.num /\ seen[LastKey].num

(***************************************************************************)
(* Claims about what the rate cache holds and about USD bridging.          *)
(***************************************************************************)
\* the call that has just returned, and its key
Returns == last'.id # last.id
ReturnedKey == CacheKey(last'.from, last'.to, last'.date)

\* C21: the cache is written only by a call whose direct lookup returned a
\* rates table, which stores under its key the rate it returns (the
\* target's entry, 1.0 when the table has none); a call that returns the
\* 1.0 of a failed lookup or a bridged rate writes nothing and leaves its
\* key uncached, and only a call whose key is cached returns without a
\* network request, so the next call with such a key asks the network again.
C21_OnlyTableRatesAreCached ==
  [][/\ cache' # cache => Returns /\ last'.how = "table"
     /\ (Returns /\ last'.how = "table") =>
          /\ last'.reqs = 1
          /\ cache' = [k \in DOMAIN cache \cup {ReturnedKey} |->
                         IF k = ReturnedKey THEN last'.rate ELSE cache[k]]
          /\ last'.rate \in TableVals \cup {F(100)}
     /\ (Returns /\ last'.how \in {"failed", "bridge", "bridgefailed"}) =>
          /\ cache' = cache
          /\ ReturnedKey \notin DOMAIN cache'
          /\ last'.reqs >= 1
     /\ (Returns /\ last'.how = "hit") =>
          /\ ReturnedKey \in DOMAIN cache
          /\ last'.reqs = 0
     /\ (Returns /\ last'.how \notin {"hit", "same"} /\ last'.how # "none") =>
          /\ ReturnedKey \notin DOMAIN cache
          /\ last'.reqs >= 1
    ]_vars

\* the second call got a bridged rate after two sub-lookups, and neither it
\* nor the call before it left anything in the cache
C21_Witness ==
  /\ last.id = 2
  /\ last.how = "bridge"
  /\ last.rate # F(100)
  /\ last.reqs = 3
  /\ cache = <<>>

\* what the claim calls a failed sub-lookup: the request raised, or the body
\* gave nothing a rate could be read from
LookupFails(resp) == resp.kind \notin {"rates", "norates"}

\* the USD-based rate of a currency: 1.0 for USD itself, else the entry of
\* the response's table (1.0 when the body or its table has no such entry)
UsdRate(code, resp) ==
  IF Upper(code) = USD THEN F(100)
  ELSE IF resp.kind = "rates" /\ Upper(code) \in DOMAIN resp.table
         THEN resp.table[Upper(code)]
         ELSE F(100)

\* C22: when the direct lookup's body has no rates table the call returns
\* to_rate / from_rate, each the USD-based rate of its currency, with no
\* lookup made for USD itself; it returns 1.0 when from_rate is 0 and when
\* a sub-lookup fails (after a failed first sub-lookup the second is not
\* made), and also when an entry it read is not a number.
C22_BridgedRateIsQuotient ==
  probe.fn = "_get_direct_rate" =>
    LET needFrom == Upper(probe.from) # USD
        needTo == Upper(probe.to) # USD
        fromFails == needFrom /\ LookupFails(probe.fromResp)
        toFails == needTo /\ LookupFails(probe.toResp)
        from_rate == UsdRate(probe.from, probe.fromResp)
        to_rate == UsdRate(probe.to, probe.toResp)
    IN /\ probe.lookups = (IF needFrom THEN 1 ELSE 0)
                          + (IF needTo /\ ~fromFails THEN 1 ELSE 0)
       /\ (fromFails \/ toFails) => probe.rate = F(100)
       /\ (~fromFails /\ ~toFails) =>
            IF from_rate.num /\ from_rate.v = 0 THEN probe.rate = F(100)
            ELSE IF from_rate.num /\ to_rate.num
                   THEN /\ probe.rate.num
                        /\ probe.rate.v * from_rate.v = to_rate.v * 100
                   ELSE probe.rate = F(100)

\* GBP to EUR over two sub-lookups that gave 0.5 and 0.25: the rate is 0.5
C22_Witness ==
  /\ probe.fn = "_get_direct_rate"
  /\ probe.from = GBP /\ probe.to = EUR
  /\ probe.lookups = 2
  /\ UsdRate(GBP, probe.fromResp) = F(50)
  /\ UsdRate(EUR, probe.toResp) = F(25)
  /\ probe.rate = F(50)

\* the reply the run got names no currency
Unrecovered(rn) == rn.answer.ok /\ rn.answer.reply.currency = NoStr

\* C23: when the reply names no currency the ExpenseData currency is the
\* configured base currency, whatever that is and whichever provider
\* answered, so the expense is stored with currency equal to base_currency
\* and the run makes no conversion.
C23_UnrecoveredCurrencyIsBase ==
  \A r \in Tasks :
    (Unrecovered(run[r]) /\ run[r].data # NoData) =>
      /\ run[r].data.currency = Upper(BASE_CURRENCY)
      /\ ~run[r].converted
      /\ "rate" \notin run[r].remote
      /\ run[r].expense # 0 =>
           expenses[run[r].expense].currency =
             expenses[run[r].expense].base_currency

\* the run got past the analysis
Analyzed(rn) ==
  \E i \in DOMAIN rn.steps : rn.steps[i] = [step |-> "analyze", state |-> "done"]

\* the analysis of the run failed: on its input, or in the provider
AnalysisFailed(rn) == InputError(rn) \/ rn.err = "analysis"

\* C24: a run whose analysis fails (a request the backend refused is such a
\* failure) ends there: the step that fails it creates no category, inserts
\* no expense and starts no rate lookup, the run has none of them, and the
\* tables change only in steps of runs whose analysis succeeded.
C24_FailedAnalysisChangesNothing ==
  [][/\ \A r \in Tasks :
          /\ ("ai" \in run'[r].remote /\ ~run'[r].answer.ok) =>
               run'[r].err = "analysis"
          /\ AnalysisFailed(run'[r]) =>
               /\ run'[r].pc = "done"
               /\ cats' = cats
               /\ expenses' = expenses
               /\ task' = task
               /\ cache' = cache
               /\ "rate" \notin run'[r].remote
               /\ run'[r].category = 0
               /\ run'[r].expense = 0
     /\ (cats' # cats \/ expenses' # expenses) =>
          \E r \in Tasks : Analyzed(run'[r]) /\ ~AnalysisFailed(run'[r])
    ]_vars

\* the first message was stored under a new category; the analysis of the
\* second failed and the tables are as the first left them
C24_Witness ==
  /\ msgs = 2
  /\ run["a"].err = "analysis"
  /\ "ai" \in run["a"].remote
  /\ Len(expenses) = 1
  /\ Len(cats) = Len(PredefinedCategories) + 1

\* the expenses filed under a category
ExpensesOf(id) == {e \in DOMAIN expenses : expenses[e].category = id}

\* C25: a category a run creates is in the table from then on, while the
\* run waits for the rate and whatever becomes of the run: it was committed
\* on its own, before the conversion and the insert of the expense.  A run
\* that created its category and then failed to store its expense leaves the
\* category in the table with no expense filed under it.
C25_CategoryOutlivesFailedInsert ==
  \A r \in Tasks :
    run[r].created =>
      /\ run[r].category \in DOMAIN cats
      /\ cats[run[r].category] = NewCategory(run[r].data.category_name)
      /\ run[r].err = "persist" =>
           /\ run[r].expense = 0
           /\ ExpensesOf(run[r].category) = {}

\* after a rate lookup the store refused the expense of a run that had
\* created the category "Taxi"; the category is there, and nothing is filed
\* under it
C25_Witness ==
  \E r \in Tasks :
    /\ run[r].created
    /\ run[r].err = "persist"
    /\ "rate" \in run[r].remote
    /\ cats[Len(cats)].name = "Taxi"
    /\ run[r].category = Len(cats)
    /\ ExpensesOf(Len(cats)) = {}

\* C26: in one event loop, where a handler gives way only at an await, the
\* lookup and the insert of a category are one step; so no name gets two
\* rows, no run is refused by the unique constraint, two runs never both
\* create the category of one name, and each run that resolved its category
\* holds the row of its name, also when the run that created the row is
\* still waiting for its rate.
C26_OneLoopNeverCollides ==
  /\ UniqueNames(cats)
  /\ \A r \in Tasks :
       /\ run[r].exc # "IntegrityError"
       /\ Resolved(run[r]) =>
            /\ run[r].category \in DOMAIN cats
            /\ cats[run[r].category].name = run[r].data.category_name
  /\ \A r1, r2 \in Tasks :
       (r1 # r2 /\ run[r1].created /\ run[r2].created) =>
         run[r1].data.category_name # run[r2].data.category_name

\* one run created "Taxi" and still waits for its rate; the other, with the
\* same name, found the row and has stored its expense under it
C26_Witness ==
  \E r1, r2 \in Tasks :
    /\ r1 # r2
    /\ run[r1].created /\ run[r1].pc = "convert"
    /\ ~run[r2].created /\ run[r2].outcome = "saved"
    /\ run[r2].category = run[r1].category
    /\ run[r2].data.category_name = "Taxi"
====
